---------------------------- MODULE Spec2Model ----------------------------
(***************************************************************************)
(* Meyerhof bearing-capacity analysis of shallow foundations on layered    *)
(* soil: stratum lookup, effective overburden, single-layer capacity, the  *)
(* two-layer (bilayer) decision logic, the allowable-capacity conversion,  *)
(* the batch table generator, the structural design check, and the run of  *)
(* the analysis from the loading of the workbook to the chart export.      *)
(*                                                                         *)
(* Real numbers are fixed-point integers with four decimals (1.0 is        *)
(* SCALE); depths are metres, angles degrees, stresses kPa.  Products and  *)
(* quotients round towards minus infinity after each operation, which     *)
(* plays the part of the floating-point rounding of the program.           *)
(***************************************************************************)
EXTENDS Integers, Sequences, FiniteSets, TLC

VARIABLES sheet, data, ret, input, run

vars == <<sheet, data, ret, input, run>>

---------------------------------------------------------------------------
(* Fixed-point arithmetic                                                  *)

SCALE == 10 ^ 4

\* n thousandths: Milli(5140) is 5.14
Milli(n) == n * (SCALE \div 1000)

\* a * b of two fixed-point numbers; the partial products keep every
\* intermediate value inside the 32-bit range of the checker's integers.
Mul(a, b) ==
    LET ah == a \div SCALE
        al == a % SCALE
        bh == b \div SCALE
        bl == b % SCALE
    IN  ah * bh * SCALE + ah * bl + al * bh + (al * bl) \div SCALE

RECURSIVE DivFraction(_, _, _)
\* The decimals of r / b, 0 <= r < b, one digit at a time down to 1 / SCALE.
DivFraction(r, b, s) ==
    IF s = 1 THEN 0
    ELSE ((r * 10) \div b) * (s \div 10)
         + DivFraction((r * 10) % b, b, s \div 10)

DivPos(a, b) == (a \div b) * SCALE + DivFraction(a % b, b, SCALE)

\* a / b of two fixed-point numbers, b # 0.
Div(a, b) == IF b > 0 THEN DivPos(a, b) ELSE DivPos(-a, -b)

Square(a) == Mul(a, a)

Min2(a, b) == IF a <= b THEN a ELSE b

Max2(a, b) == IF a >= b THEN a ELSE b

RECURSIVE SqrtSearch(_, _, _)
SqrtSearch(v, lo, hi) ==
    IF lo >= hi THEN lo
    ELSE LET mid == (lo + hi + 1) \div 2
         IN  IF mid * mid <= v THEN SqrtSearch(v, mid, hi)
             ELSE SqrtSearch(v, lo, mid - 1)

\* kp ** 0.5 for 0 <= a <= 16.0
Sqrt(a) == SqrtSearch(a * SCALE, 0, 4 * SCALE)

\* math.pi
PI == 31416

\* math.tan(math.radians(i)) at whole degrees i = 0 .. 89
TanTable ==
    << 0, 175, 349, 524, 699, 875, 1051, 1228, 1405, 1584,
       1763, 1944, 2126, 2309, 2493, 2679, 2867, 3057, 3249, 3443,
       3640, 3839, 4040, 4245, 4452, 4663, 4877, 5095, 5317, 5543,
       5774, 6009, 6249, 6494, 6745, 7002, 7265, 7536, 7813, 8098,
       8391, 8693, 9004, 9325, 9657, 10000, 10355, 10724, 11106, 11504,
       11918, 12349, 12799, 13270, 13764, 14281, 14826, 15399, 16003, 16643,
       17321, 18040, 18807, 19626, 20503, 21445, 22460, 23559, 24751, 26051,
       27475, 29042, 30777, 32709, 34874, 37321, 40108, 43315, 47046, 51446,
       56713, 63138, 71154, 81443, 95144, 114301, 143007, 190811, 286363, 572900 >>

\* math.tan(math.radians(a)) for an angle 0 <= a < 89 degrees: the table,
\* interpolated linearly and rounded to the nearest unit.
TanDeg(a) ==
    LET i == a \div SCALE
        f == a % SCALE
        lo == TanTable[i + 1]
        hi == TanTable[i + 2]
    IN  lo + ((hi - lo) * f + SCALE \div 2) \div SCALE

RECURSIVE ExpSeries(_, _, _, _)
ExpSeries(y, k, term, acc) ==
    IF term = 0 THEN acc
    ELSE ExpSeries(y, k + 1, Mul(term, y) \div k, acc + term)

\* math.exp(y) for y >= 0: the power series, summed until a term vanishes.
Exp(y) == ExpSeries(y, 1, SCALE, 0)

---------------------------------------------------------------------------
(* geotechnical_params.py                                                  *)

\* WATER_UNIT_WEIGHT = 9.81
WATER_UNIT_WEIGHT == Milli(9810)

\* The value a Python function returns when it falls off its end.
None == "None"

RECURSIVE FirstContainingClosed(_, _, _)
\* Faulty variant: the final depth taken as part of the stratum.
FirstContainingClosed(d, Df, i) ==
    IF i > Len(d) THEN 0
    ELSE IF d[i].ini <= Df /\ Df <= d[i].fin THEN i
         ELSE FirstContainingClosed(d, Df, i + 1)

RECURSIVE FirstContaining(_, _, _)
\* The loop of get_stratum_id / get_stratum_description: the position of the
\* first row with Initial Depth <= Df < Final Depth, 0 when the loop ends
\* without a return.
FirstContaining(d, Df, i) ==
    IF i > Len(d) THEN 0
    ELSE IF d[i].ini <= Df /\ Df < d[i].fin THEN i
         ELSE FirstContaining(d, Df, i + 1)

get_stratum_id(d, Df) ==
    LET i == FirstContaining(d, Df, 1)
    IN  IF i = 0 THEN None ELSE d[i].id

get_stratum_description(d, Df) ==
    LET i == FirstContaining(d, Df, 1)
    IN  IF i = 0 THEN None ELSE d[i].desc

RECURSIVE get_loc_default(_, _, _)
\* Faulty variant: the last row stands in for a label that no row carries.
get_loc_default(d, label, i) ==
    IF i > Len(d) THEN Len(d)
    ELSE IF d[i].id = label THEN i ELSE get_loc_default(d, label, i + 1)

RECURSIVE get_loc(_, _, _)
\* df.index.get_loc(label): the position of the row labelled with the id,
\* 0 when no row carries it (pandas raises KeyError).
get_loc(d, label, i) ==
    IF i > Len(d) THEN 0
    ELSE IF d[i].id = label THEN i ELSE get_loc(d, label, i + 1)

\* Faulty variant: the located row read again as the row below.
get_stratum_parameters_same(d, Df) ==
    LET stratum_index == get_loc(d, get_stratum_id(d, Df), 1)
    IN  IF stratum_index = 0
        THEN [status |-> "KeyError", c1 |-> 0, phi1 |-> 0, c2 |-> 0, phi2 |-> 0]
        ELSE [status |-> "ok", c1 |-> d[stratum_index].c,
              phi1 |-> d[stratum_index].fi, c2 |-> d[stratum_index].c,
              phi2 |-> d[stratum_index].fi]

get_stratum_parameters(d, Df) ==
    LET current_stratum_id == get_stratum_id(d, Df)
        stratum_index == get_loc(d, current_stratum_id, 1)
    IN  IF stratum_index = 0
        THEN [status |-> "KeyError", c1 |-> 0, phi1 |-> 0, c2 |-> 0, phi2 |-> 0]
        ELSE LET c1 == d[stratum_index].c
                 phi1 == d[stratum_index].fi
             IN  IF stratum_index < Len(d)
                 THEN [status |-> "ok", c1 |-> c1, phi1 |-> phi1,
                       c2 |-> d[stratum_index + 1].c,
                       phi2 |-> d[stratum_index + 1].fi]
                 ELSE [status |-> "ok", c1 |-> c1, phi1 |-> phi1,
                       c2 |-> c1, phi2 |-> phi1]

\* Faulty variant: a row that starts exactly at Df is ignored.
StratumThicknessOpen(row, Df) ==
    IF row.fin <= Df THEN row.fin - row.ini
    ELSE IF row.ini < Df /\ Df <= row.fin THEN Df - row.ini
         ELSE -1

\* Thickness of a row above Df, -1 when the row lies entirely below Df
\* (the loop's continue).
StratumThickness(row, Df) ==
    IF row.fin <= Df THEN row.fin - row.ini
    ELSE IF row.ini <= Df /\ Df <= row.fin THEN Df - row.ini
         ELSE -1

\* Faulty variant: the saturated weight taken for the submerged one.
OverburdenTermSaturated(row, Df, GWL, stratum_thickness) ==
    IF GWL >= Df THEN Mul(stratum_thickness, row.ym)
    ELSE IF GWL <= row.ini THEN Mul(stratum_thickness, row.ysat)
    ELSE Mul(Max2(0, Min2(GWL - row.ini, stratum_thickness)), row.ym)
         + Mul(Max2(0, stratum_thickness
                         - Max2(0, Min2(GWL - row.ini, stratum_thickness))),
               row.ysat)

\* Faulty variant: the moist portion left as first assigned, not clamped.
MoistPortionUnclamped(row, GWL, stratum_thickness) == GWL - row.ini

\* h_moist = max(0, min(GWL - Initial Depth, stratum_thickness))
MoistPortion(row, GWL, stratum_thickness) ==
    Max2(0, Min2(GWL - row.ini, stratum_thickness))

\* h_submerged = max(0, stratum_thickness - h_moist)
SubmergedPortion(stratum_thickness, h_moist) ==
    Max2(0, stratum_thickness - h_moist)

\* The row reaches the branch that divides it into a moist and a submerged
\* portion.
WaterWithin(row, Df, GWL) == ~(GWL >= Df) /\ ~(GWL <= row.ini)

\* The portions the loop computed for a row, none outside that branch.
Portions(row, Df, GWL, stratum_thickness) ==
    IF WaterWithin(row, Df, GWL)
    THEN << [id |-> row.id, stratum_thickness |-> stratum_thickness,
             h_moist |-> MoistPortion(row, GWL, stratum_thickness),
             h_submerged |->
                SubmergedPortion(stratum_thickness,
                    MoistPortion(row, GWL, stratum_thickness))] >>
    ELSE << >>

\* What one row adds to q_bar.
OverburdenTerm(row, Df, GWL, stratum_thickness) ==
    LET y_stratum == row.ym
        y_submerged == row.ysat - WATER_UNIT_WEIGHT
    IN  IF GWL >= Df THEN Mul(stratum_thickness, y_stratum)
        ELSE IF GWL <= row.ini THEN Mul(stratum_thickness, y_submerged)
        ELSE LET h_moist == MoistPortion(row, GWL, stratum_thickness)
                 h_submerged == SubmergedPortion(stratum_thickness, h_moist)
             IN  Mul(h_moist, y_stratum) + Mul(h_submerged, y_submerged)

RECURSIVE OverburdenLoop(_, _, _, _, _)
\* The for loop over the rows; acc carries q_bar and the loop variables
\* y_stratum and y_submerged as the last row not skipped left them.
OverburdenLoop(d, Df, GWL, i, acc) ==
    IF i > Len(d) THEN acc
    ELSE LET t == StratumThickness(d[i], Df)
         IN  IF t < 0 THEN OverburdenLoop(d, Df, GWL, i + 1, acc)
             ELSE OverburdenLoop(d, Df, GWL, i + 1,
                    [q_bar |-> acc.q_bar + OverburdenTerm(d[i], Df, GWL, t),
                     y_stratum |-> d[i].ym,
                     y_submerged |-> d[i].ysat - WATER_UNIT_WEIGHT,
                     portions |-> acc.portions \o Portions(d[i], Df, GWL, t),
                     bound |-> TRUE])

GammaBar(Df, GWL, B, y_stratum, y_submerged) ==
    IF GWL < Df THEN y_submerged
    ELSE IF GWL - Df < B
         THEN y_submerged + Mul(Div(GWL - Df, B), y_stratum - y_submerged)
         ELSE y_stratum

calculate_effective_overburden(d, Df, GWL, B) ==
    LET acc == OverburdenLoop(d, Df, GWL, 1,
                 [q_bar |-> 0, y_stratum |-> 0, y_submerged |-> 0,
                  portions |-> << >>, bound |-> FALSE])
    IN  IF ~acc.bound
        THEN [status |-> "UnboundLocalError", q_bar |-> 0, gamma_bar |-> 0,
              portions |-> << >>]
        ELSE [status |-> "ok", q_bar |-> acc.q_bar, portions |-> acc.portions,
              gamma_bar |-> GammaBar(Df, GWL, B, acc.y_stratum,
                                     acc.y_submerged)]

---------------------------------------------------------------------------
(* capacity_calc.py: meyerhof_capacity                                     *)

\* alpha = 45 + fi / 2
Alpha(fi) == 45 * SCALE + fi \div 2

\* H = (B / 2) * tan(alpha)
InfluenceDepth(B, fi1) == Mul(B \div 2, TanDeg(Alpha(fi1)))

\* kp = tan(45 + fi / 2) ** 2
Kp(fi) == Square(TanDeg(Alpha(fi)))

BearingNq(fi) == Mul(Exp(Mul(PI, TanDeg(fi))), Square(TanDeg(Alpha(fi))))

BearingNc(fi) == Div(BearingNq(fi) - SCALE, TanDeg(fi))

BearingNy(fi) == Mul(BearingNq(fi) - SCALE, TanDeg(Mul(Milli(1400), fi)))

ShapeC(kp, B, L) == SCALE + Mul(Mul(Milli(200), kp), Div(B, L))

\* Faulty variant: the formula already at 10 degrees.
ShapeQInclusive(fi, kp, B, L) ==
    IF fi >= 10 * SCALE THEN SCALE + Mul(Mul(Milli(100), kp), Div(B, L))
    ELSE SCALE

ShapeQ(fi, kp, B, L) ==
    IF fi > 10 * SCALE THEN SCALE + Mul(Mul(Milli(100), kp), Div(B, L)) ELSE SCALE

DepthC(kp, Df, B) ==
    SCALE + Mul(Mul(Milli(200), Sqrt(kp)), Div(Df, B))

DepthQ(fi, kp, Df, B) ==
    IF fi > 10 * SCALE THEN SCALE + Mul(Mul(Milli(100), Sqrt(kp)), Div(Df, B))
    ELSE SCALE

InclinationC(Theta) == Square(SCALE - Div(Theta, 90 * SCALE))

InclinationY(fi, Theta) ==
    IF fi > 0 THEN Square(SCALE - Div(Theta, fi))
    ELSE IF Theta > 0 THEN 0 ELSE SCALE

\* The capacity, shape, depth and inclination factors of one layer.
LayerFactors(fi, Df, B, L, Theta) ==
    LET kp == Kp(fi)
    IN  [kp |-> kp,
         Nq |-> BearingNq(fi), Nc |-> BearingNc(fi), Ny |-> BearingNy(fi),
         Sc |-> ShapeC(kp, B, L),
         Sq |-> ShapeQ(fi, kp, B, L), Sy |-> ShapeQ(fi, kp, B, L),
         dc |-> DepthC(kp, Df, B),
         dq |-> DepthQ(fi, kp, Df, B), dy |-> DepthQ(fi, kp, Df, B),
         ic |-> InclinationC(Theta), iq |-> InclinationC(Theta),
         iy |-> InclinationY(fi, Theta)]

\* (c*Nc*Sc*dc*ic) + (q_bar*Nq*Sq*dq*iq) + (0.5*y_bar*B*Ny*Sy*dy*iy)
QUlt(c, Nc, Sc, dc, ic, q_bar, Nq, Sq_, dq, iq, y_bar, B, Ny, Sy, dy, iy) ==
      Mul(Mul(Mul(Mul(c, Nc), Sc), dc), ic)
    + Mul(Mul(Mul(Mul(q_bar, Nq), Sq_), dq), iq)
    + Mul(Mul(Mul(Mul(Mul(Mul(Milli(500), y_bar), B), Ny), Sy), dy), iy)

\* Faulty variant: equality sent to the two-layer logic.
NoInteractionStrict(d1, H) == d1 > H

\* Case A: the influence depth stays inside the embedment layer.
NoInteraction(d1, H) == d1 >= H

\* The case type of the layer pair.
\* Faulty variant: the averaging kept for pairs without a pure layer, every
\* other pair outside the two punching patterns taken as clay on clay.
SoilCaseNoPure(c1, fi1, c2, fi2, epsilon) ==
    LET is_clay1 == fi1 < epsilon
        is_clay2 == fi2 < epsilon
        is_sand1 == c1 < epsilon
        is_sand2 == c2 < epsilon
    IN  IF is_clay1 /\ is_clay2 THEN "case1"
        ELSE IF is_sand1 /\ is_clay2 THEN "case3_a"
        ELSE IF is_clay1 /\ is_sand2 THEN "case3_b"
        ELSE IF is_clay1 \/ is_clay2 \/ is_sand1 \/ is_sand2 THEN "case1"
        ELSE "case2"

\* Faulty variant: sand on clay tested before clay on clay.
SoilCaseSandFirst(c1, fi1, c2, fi2, epsilon) ==
    LET is_clay1 == fi1 < epsilon
        is_clay2 == fi2 < epsilon
        is_sand1 == c1 < epsilon
        is_sand2 == c2 < epsilon
    IN  IF is_sand1 /\ is_clay2 THEN "case3_a"
        ELSE IF is_clay1 /\ is_clay2 THEN "case1"
        ELSE IF is_clay1 /\ is_sand2 THEN "case3_b"
        ELSE "case2"

SoilCase(c1, fi1, c2, fi2, epsilon) ==
    LET is_clay1 == fi1 < epsilon
        is_clay2 == fi2 < epsilon
        is_sand1 == c1 < epsilon
        is_sand2 == c2 < epsilon
    IN  IF is_clay1 /\ is_clay2 THEN "case1"
        ELSE IF is_sand1 /\ is_clay2 THEN "case3_a"
        ELSE IF is_clay1 /\ is_sand2 THEN "case3_b"
        ELSE "case2"

\* CR = c2 / (c1 + epsilon)
ClayRatio(c1, c2, epsilon) == Div(c2, c1 + epsilon)

\* (1.5 * d1 / B) + 5.14 * CR
NcsLow(d1, B, CR) == Div(Mul(Milli(1500), d1), B) + Mul(Milli(5140), CR)

\* Faulty variant: the 10 % reduction left out.
NcsMidUnreduced(d1, B, CR) ==
    Div(Mul(Milli(1500), d1), B) + Mul(Milli(5140), CR)

\* 0.9 * ((1.5 * d1 / B) + 5.14 * CR)
NcsMid(d1, B, CR) ==
    Mul(Milli(900), Div(Mul(Milli(1500), d1), B) + Mul(Milli(5140), CR))

\* 2 * ((N1s * N2s) / (N1s + N2s + epsilon))
NcsHigh(d1, B, epsilon) ==
    LET N1s == Milli(4140) + Div(Mul(Milli(500), B), d1 + epsilon)
        N2s == Milli(4140) + Div(Mul(Milli(1100), B), d1 + epsilon)
    IN  Mul(2 * SCALE, Div(Mul(N1s, N2s), N1s + N2s + epsilon))

\* The corrected cohesion factor Ncs of the clay-on-clay case.
CorrectedNc(d1, B, CR, epsilon) ==
    IF CR < Milli(700) THEN NcsLow(d1, B, CR)
    ELSE IF Milli(700) <= CR /\ CR <= SCALE THEN NcsMid(d1, B, CR)
    ELSE NcsHigh(d1, B, epsilon)

\* Clay on clay: q_ult with Ncs in the place of Nc.
ClayOnClay(base, F1, B, CR, Ncs) ==
    [base EXCEPT !.CR = CR, !.Ncs = Ncs,
       !.q_ult_bilayer =
          QUlt(base.c1, Ncs, F1.Sc, F1.dc, F1.ic, base.q_bar, F1.Nq, F1.Sq,
               F1.dq, F1.iq, base.y_bar, B, F1.Ny, F1.Sy, F1.dy, F1.iy)]

\* Faulty variant: the second layer weighted by H, not by H - d1.
WeightedAverageWhole(d1, H, x1, x2, epsilon) ==
    Div(Mul(d1, x1) + Mul(H, x2), H + epsilon)

\* Faulty variant: epsilon taken off the divisor.
WeightedAverageUnder(d1, H, x1, x2, epsilon) ==
    Div(Mul(d1, x1) + Mul(H - d1, x2), H - epsilon)

\* (d1 * x1 + (H - d1) * x2) / (H + epsilon)
WeightedAverage(d1, H, x1, x2, epsilon) ==
    Div(Mul(d1, x1) + Mul(H - d1, x2), H + epsilon)

\* Faulty variant: Sc and dc recomputed from the averaged friction angle too.
CPhiOnCPhiAllAveraged(base, F1, Df, B, L, Theta, fi_avg, c_avg) ==
    IF TanDeg(fi_avg) = 0 THEN [status |-> "ZeroDivisionError"]
    ELSE [base EXCEPT !.fi_avg = fi_avg, !.c_avg = c_avg,
            !.Sq_avg = ShapeQ(fi_avg, Kp(fi_avg), B, L),
            !.Sy_avg = ShapeQ(fi_avg, Kp(fi_avg), B, L),
            !.dq_avg = DepthQ(fi_avg, Kp(fi_avg), Df, B),
            !.dy_avg = DepthQ(fi_avg, Kp(fi_avg), Df, B),
            !.q_ult_bilayer =
               QUlt(c_avg, BearingNc(fi_avg), ShapeC(Kp(fi_avg), B, L),
                    DepthC(Kp(fi_avg), Df, B), F1.ic,
                    base.q_bar, BearingNq(fi_avg),
                    ShapeQ(fi_avg, Kp(fi_avg), B, L),
                    DepthQ(fi_avg, Kp(fi_avg), Df, B), F1.iq,
                    base.y_bar, B, BearingNy(fi_avg),
                    ShapeQ(fi_avg, Kp(fi_avg), B, L),
                    DepthQ(fi_avg, Kp(fi_avg), Df, B),
                    InclinationY(fi_avg, Theta))]

\* c-phi on c-phi: the factors of the averaged friction angle, with Sc, dc,
\* ic and iq of layer 1.
CPhiOnCPhi(base, F1, Df, B, L, Theta, fi_avg, c_avg) ==
    IF TanDeg(fi_avg) = 0 THEN [status |-> "ZeroDivisionError"]
    ELSE [base EXCEPT !.fi_avg = fi_avg, !.c_avg = c_avg,
            !.Sq_avg = ShapeQ(fi_avg, Kp(fi_avg), B, L),
            !.Sy_avg = ShapeQ(fi_avg, Kp(fi_avg), B, L),
            !.dq_avg = DepthQ(fi_avg, Kp(fi_avg), Df, B),
            !.dy_avg = DepthQ(fi_avg, Kp(fi_avg), Df, B),
            !.q_ult_bilayer =
               QUlt(c_avg, BearingNc(fi_avg), F1.Sc, F1.dc, F1.ic,
                    base.q_bar, BearingNq(fi_avg),
                    ShapeQ(fi_avg, Kp(fi_avg), B, L),
                    DepthQ(fi_avg, Kp(fi_avg), Df, B), F1.iq,
                    base.y_bar, B, BearingNy(fi_avg),
                    ShapeQ(fi_avg, Kp(fi_avg), B, L),
                    DepthQ(fi_avg, Kp(fi_avg), Df, B),
                    InclinationY(fi_avg, Theta))]

\* P = 2 * (B + L)
Perimeter(B, L) == 2 * (B + L)

\* pv = (Df * q_bar * d1) + (9.81 * ((d1 ** 2) / 2))
VerticalPressure(Df, q_bar, d1) ==
    Mul(Mul(Df, q_bar), d1) + Mul(Milli(9810), Square(d1) \div 2)

\* q_ult_prime of the punching-shear mechanism, with ks = kp of layer 1.
PunchingShear(q_ult_2, c1, fi1, kp, q_bar, d1, Df, B, L, epsilon) ==
    q_ult_2
    + Div(Mul(Mul(Mul(Perimeter(B, L), VerticalPressure(Df, q_bar, d1)), kp),
              TanDeg(fi1)),
          Mul(B, L) + epsilon)
    + Div(Mul(Mul(Perimeter(B, L), d1), c1), Mul(B, L) + epsilon)

\* Faulty variant: the larger of the two capacities.
PunchingControlMax(q_ult_1, q_ult_prime) == Max2(q_ult_1, q_ult_prime)

\* The controlling capacity of the punching-shear cases.
PunchingControl(q_ult_1, q_ult_prime) == Min2(q_ult_1, q_ult_prime)

\* The divisors of the statements every call executes.
CommonDivisors(fi1, fi2, B, L) == {TanDeg(fi1), TanDeg(fi2), B, L}

\* Faulty variant: the controlling capacity written over q_ult_1 as well.
PunchingShearCaseOverwrites(base, q_ult_prime) ==
    [base EXCEPT !.q_ult_prime = q_ult_prime,
       !.q_ult_1 = PunchingControl(base.q_ult_1, q_ult_prime),
       !.q_ult_bilayer = PunchingControl(base.q_ult_1, q_ult_prime)]

\* The sand-on-clay and clay-on-sand cases.
PunchingShearCase(base, q_ult_prime) ==
    [base EXCEPT !.q_ult_prime = q_ult_prime,
       !.q_ult_bilayer = PunchingControl(base.q_ult_1, q_ult_prime)]

\* The values known before the two-layer logic, q_ult_bilayer at its default.
SingleLayerResult(p, H, d1, F1, F2, ob, q_ult_1, q_ult_2, epsilon) ==
    [status |-> "ok", c1 |-> p.c1, fi1 |-> p.phi1, c2 |-> p.c2,
     fi2 |-> p.phi2, H |-> H, d1 |-> d1, q_bar |-> ob.q_bar,
     Sq |-> F1.Sq, Sy |-> F1.Sy, dq |-> F1.dq, dy |-> F1.dy,
     Sq2 |-> F2.Sq, Sy2 |-> F2.Sy, dq2 |-> F2.dq, dy2 |-> F2.dy,
     Sq_avg |-> 0, Sy_avg |-> 0, dq_avg |-> 0, dy_avg |-> 0,
     y_bar |-> ob.gamma_bar, q_ult_1 |-> q_ult_1, q_ult_2 |-> q_ult_2,
     case |-> IF NoInteraction(d1, H) THEN "caseA"
              ELSE SoilCase(p.c1, p.phi1, p.c2, p.phi2, epsilon),
     CR |-> 0, Ncs |-> 0, fi_avg |-> 0, c_avg |-> 0, q_ult_prime |-> 0,
     q_ult_bilayer |-> q_ult_1]

\* The two-layer controlling capacity logic.
BilayerLogic(base, F1, Df, B, L, Theta, epsilon) ==
    CASE base.case = "caseA" -> base
      [] base.case = "case1" ->
            ClayOnClay(base, F1, B, ClayRatio(base.c1, base.c2, epsilon),
                       CorrectedNc(base.d1, B,
                                   ClayRatio(base.c1, base.c2, epsilon),
                                   epsilon))
      [] base.case = "case2" ->
            CPhiOnCPhi(base, F1, Df, B, L, Theta,
                WeightedAverage(base.d1, base.H, base.fi1, base.fi2, epsilon),
                WeightedAverage(base.d1, base.H, base.c1, base.c2, epsilon))
      [] OTHER ->
            PunchingShearCase(base,
                PunchingShear(base.q_ult_2, base.c1, base.fi1, F1.kp,
                              base.q_bar, base.d1, Df, B, L, epsilon))

\* q_ult_1 and q_ult_2 from the factors of the two layers, then the
\* two-layer logic.
LayerCapacities(p, H, d1, F1, F2, ob, Df, B, L, Theta, epsilon) ==
    BilayerLogic(
        SingleLayerResult(p, H, d1, F1, F2, ob,
            QUlt(p.c1, F1.Nc, F1.Sc, F1.dc, F1.ic, ob.q_bar, F1.Nq, F1.Sq,
                 F1.dq, F1.iq, ob.gamma_bar, B, F1.Ny, F1.Sy, F1.dy, F1.iy),
            QUlt(p.c2, F2.Nc, F2.Sc, F2.dc, F2.ic, ob.q_bar, F2.Nq, F2.Sq,
                 F2.dq, F2.iq, ob.gamma_bar, B, F2.Ny, F2.Sy, F2.dy, F2.iy),
            epsilon),
        F1, Df, B, L, Theta, epsilon)

\* The body of meyerhof_capacity once the parameters of the two layers are
\* read.
MeyerhofWith(p, d, Df, B, L, GWL, Theta, epsilon) ==
    IF p.status # "ok" THEN [status |-> p.status]
    ELSE IF 0 \in CommonDivisors(p.phi1, p.phi2, B, L)
    THEN [status |-> "ZeroDivisionError"]
    ELSE LayerCapacities(p, InfluenceDepth(B, p.phi1),
             d[get_loc(d, get_stratum_id(d, Df), 1)].fin - Df,
             LayerFactors(p.phi1, Df, B, L, Theta),
             LayerFactors(p.phi2, Df, B, L, Theta),
             calculate_effective_overburden(d, Df, GWL, B),
             Df, B, L, Theta, epsilon)

meyerhof_capacity(d, Df, B, L, GWL, Theta, epsilon) ==
    MeyerhofWith(get_stratum_parameters(d, Df), d, Df, B, L, GWL, Theta,
                 epsilon)

---------------------------------------------------------------------------
(* capacity_calc.py: calculate_allowable_capacity, generate_capacity_table *)

\* Faulty variant: no factor for a code that is not recognised.
FactorSafetyNoDefault(Code) ==
    IF Code = "Bowles_FS_3.0" THEN 3 * SCALE
    ELSE IF Code = "AASHTO_2020" THEN Div(SCALE, Milli(450))
    ELSE SCALE

\* The safety / resistance factor of the design code.
FactorSafety(Code) ==
    IF Code = "Bowles_FS_3.0" THEN 3 * SCALE
    ELSE IF Code = "AASHTO_2020" THEN Div(SCALE, Milli(450))
    ELSE 3 * SCALE

\* The returned pair, from the result m of meyerhof_capacity.
AllowableFrom(m, Code) ==
    IF m.status # "ok" THEN [status |-> m.status]
    ELSE [status |-> "ok",
          ultimate_bearing_capacity |-> m.q_ult_bilayer,
          allowable_bearing_capacity |->
              Div(m.q_ult_bilayer, FactorSafety(Code))]

calculate_allowable_capacity(d, Df, B, L, GWL, Theta, epsilon, Code) ==
    AllowableFrom(meyerhof_capacity(d, Df, B, L, GWL, Theta, epsilon), Code)

\* Faulty variant: square footings skipped.
StandardGeometryStrict(B, L) == L > B

\* The test of the innermost loop: is the combination evaluated?
StandardGeometry(B, L) == L >= B

\* The dictionary appended to the data list, from the values of the calls.
RowFrom(stratum_id, stratum_desc, m, a, p, Df, B, L) ==
    IF m.status # "ok" THEN [status |-> m.status]
    ELSE [status |-> "ok", stratum_id |-> stratum_id,
          stratum_desc |-> stratum_desc, Df |-> Df, B |-> B, L |-> L,
          B_L_Ratio |-> Div(B, L), C1 |-> p.c1, Fi1 |-> p.phi1,
          C2 |-> p.c2, Fi2 |-> p.phi2, q_ult_single |-> m.q_ult_1,
          q_ult_bilayer |-> m.q_ult_bilayer,
          q_ult_final |-> a.ultimate_bearing_capacity,
          q_adm |-> a.allowable_bearing_capacity]

\* The row appended for one combination (status "ok"), or the exception the
\* calculation raises.
CapacityRow(d, Df, B, L, GWL, Theta, epsilon, Code) ==
    RowFrom(get_stratum_id(d, Df), get_stratum_description(d, Df),
            meyerhof_capacity(d, Df, B, L, GWL, Theta, epsilon),
            calculate_allowable_capacity(d, Df, B, L, GWL, Theta, epsilon,
                                         Code),
            get_stratum_parameters(d, Df), Df, B, L)

\* The k-th combination, k = 1, 2, ..., in the order the three nested for
\* loops visit them (Df outermost, L innermost).
Combination(Df_values, B_values, L_values, k) ==
    LET nB == Len(B_values)
        nL == Len(L_values)
    IN  [Df |-> Df_values[((k - 1) \div (nB * nL)) + 1],
         B |-> B_values[(((k - 1) \div nL) % nB) + 1],
         L |-> L_values[((k - 1) % nL) + 1]]

\* The body of the innermost loop for one combination: a row, an exception,
\* or the continue of a combination with L < B.
CapacityStep(d, combo, GWL, Theta, epsilon, Code) ==
    IF StandardGeometry(combo.B, combo.L)
    THEN CapacityRow(d, combo.Df, combo.B, combo.L, GWL, Theta, epsilon, Code)
    ELSE [status |-> "continue"]

\* What the loop body did for the k-th combination.
StepOf(done, k) == (CHOOSE pr \in done : pr[1] = k)[2]

\* The combinations at which the loop body raised.
Raised(done) == {pr[1] : pr \in {q \in done : q[2].status \notin {"ok", "continue"}}}

RowAppended(r) == r.status = "ok"

\* The loops run until the first exception; without one the table holds the
\* rows of the combinations calculated, in loop order.
TableFrom(done, raised, N) ==
    IF raised # {}
    THEN [status |->
             StepOf(done, CHOOSE k \in raised : \A j \in raised : k <= j).status,
          rows |-> <<>>,
          calculated |->
             Cardinality({pr \in done :
                /\ \A j \in raised : pr[1] <= j
                /\ pr[2].status # "continue"})]
    ELSE [status |-> "ok",
          rows |-> SelectSeq([k \in 1..N |-> StepOf(done, k)], RowAppended),
          calculated |-> Cardinality({pr \in done : pr[2].status = "ok"})]

\* The pairs of a combination's position and what the loop body did for it.
LoopSteps(d, Df_values, B_values, L_values, GWL, Theta, epsilon, Code) ==
    { <<k, CapacityStep(d, Combination(Df_values, B_values, L_values, k),
                        GWL, Theta, epsilon, Code)>> :
         k \in 1..(Len(Df_values) * Len(B_values) * Len(L_values)) }

TableOfSteps(done, N) == TableFrom(done, Raised(done), N)

generate_capacity_table(d, Df_values, B_values, L_values, GWL, Theta, epsilon, Code) ==
    TableOfSteps(LoopSteps(d, Df_values, B_values, L_values, GWL, Theta, epsilon, Code), Len(Df_values) * Len(B_values) * Len(L_values))

---------------------------------------------------------------------------
(* capacity_calc.py: check_structural_design_capacity                      *)

\* design_stress = load / (B * L)
DesignStress(load, B, L) == Div(load, Mul(B, L))

\* Faulty variant: a footing loaded exactly to its capacity fails.
CompliantStrict(q_adm, design_stress) == q_adm > design_stress

\* is_compliant: q_adm >= design_stress
Compliant(q_adm, design_stress) == q_adm >= design_stress

\* The values appended for one record of the footing table, from the result
\* a of calculate_allowable_capacity, or the exception raised.
FootingCheck(a, rec, design_area) ==
    IF a.status # "ok" THEN [status |-> a.status]
    ELSE IF design_area = 0 THEN [status |-> "ZeroDivisionError"]
    ELSE [status |-> "ok", Df |-> rec.Df, B |-> rec.B, L |-> rec.L,
          load |-> rec.load,
          q_ult |-> a.ultimate_bearing_capacity,
          q_adm |-> a.allowable_bearing_capacity,
          design_stress |-> DesignStress(rec.load, rec.B, rec.L),
          is_compliant |->
             Compliant(a.allowable_bearing_capacity,
                       DesignStress(rec.load, rec.B, rec.L))]

\* The pairs of a record's position and what the loop body did for it.
FootingSteps(footings, d, GWL, Theta, epsilon, Code) ==
    { <<k, FootingCheck(
              calculate_allowable_capacity(d, footings[k].Df, footings[k].B,
                  footings[k].L, GWL, Theta, epsilon, Code),
              footings[k], Mul(footings[k].B, footings[k].L))>> :
         k \in 1..Len(footings) }

\* The footing table with its four new columns, or the first exception.
FootingTableFrom(done, raised, N) ==
    IF raised # {}
    THEN [status |->
             StepOf(done, CHOOSE k \in raised : \A j \in raised : k <= j).status,
          rows |-> <<>>]
    ELSE [status |-> "ok", rows |-> [k \in 1..N |-> StepOf(done, k)]]

FootingTableOfSteps(done, N) == FootingTableFrom(done, Raised(done), N)

\* Faulty variant: the new columns assigned to the geotechnical frame.
GeotechWithColumns(d, out) ==
    [i \in 1..Len(d) |->
        [d[i] EXCEPT !.desc = IF out.status = "ok" THEN "checked" ELSE @]]

\* df_geotech as the caller finds it after the call: the four new columns
\* are assigned to df_footing_config, df_geotech is only read.
GeotechAfterCheck(d, out) == d

check_structural_design_capacity(footings, d, GWL, Theta, epsilon, Code) ==
    FootingTableOfSteps(FootingSteps(footings, d, GWL, Theta, epsilon, Code), Len(footings))

---------------------------------------------------------------------------
(* geotechnical_params.py: process_geotechnical_data                       *)

RECURSIVE SortedSeq(_)
\* sorted(set(...))
SortedSeq(S) ==
    IF S = {} THEN <<>>
    ELSE LET m == CHOOSE x \in S : \A y \in S : x <= y
         IN  <<m>> \o SortedSeq(S \ {m})

\* scalars = [1, 1.25, 1.5, 2, 5, 10]
Scalars ==
    <<Milli(1000), Milli(1250), Milli(1500), Milli(2000), Milli(5000),
      Milli(10000)>>

\* L_values = sorted(set(b * e for b, e in product(B_values, scalars)))
LengthValues(B_values) ==
    SortedSeq({Mul(B_values[i], Scalars[j]) :
                 i \in 1..Len(B_values), j \in 1..Len(Scalars)})

\* Faulty variant: the values stored as read.
AdjustRowAsRead(row, epsilon) == row

\* Faulty variant: the cohesion adjusted, the friction angle stored as read.
AdjustRowCohesionOnly(row, epsilon) == [row EXCEPT !.c = row.c + epsilon]

\* cohesion_adj / friction_angle_adj: every value plus epsilon.
AdjustRow(row, epsilon) ==
    [row EXCEPT !.c = row.c + epsilon, !.fi = row.fi + epsilon]

process_geotechnical_data(sh, epsilon) ==
    [df |-> [i \in 1..Len(sh.strata) |-> AdjustRow(sh.strata[i], epsilon)],
     Df_values |-> sh.Df_values,
     B_values |-> sh.B_values,
     L_values |-> LengthValues(sh.B_values),
     epsilon |-> epsilon,
     code |-> sh.code,
     GWL |-> sh.GWL,
     Theta |-> sh.theta]

---------------------------------------------------------------------------
(* Inputs                                                                  *)

\* The guard epsilon of process_geotechnical_data, in fixed-point units.
EPS == 50

\* The widest footing, in metres.
MaxWidth == 2

Row(id, desc, ini, fin, ym, ysat, c, fi) ==
    [id |-> id, desc |-> desc, ini |-> Milli(ini), fin |-> Milli(fin),
     ym |-> Milli(ym), ysat |-> Milli(ysat), c |-> Milli(c), fi |-> Milli(fi)]

\* Soils as the worksheet gives them: <<cohesion, friction angle>>.
Clay40 == <<40000, 0>>

Clay50 == <<50000, 0>>

Clay80 == <<80000, 0>>

Sand30 == <<0, 30000>>

CPhi20 == <<10000, 20000>>

CPhi30 == <<20000, 30000>>

\* Two strata, 0 - 2 m and 2 - 10 m.
TwoLayers(top, bottom) ==
    << Row("E1", "upper", 0, 2000, 17000, 19000, top[1], top[2]),
       Row("E2", "lower", 2000, 10000, 18000, 20000, bottom[1], bottom[2]) >>

\* Three strata, 0 - 1 m, 1 - 2 m and 2 - 10 m.
ThreeLayers(top, middle, bottom) ==
    << Row("E1", "fill", 0, 1000, 16000, 18000, top[1], top[2]),
       Row("E2", "upper", 1000, 2000, 17000, 19000, middle[1], middle[2]),
       Row("E3", "lower", 2000, 10000, 18000, 20000, bottom[1], bottom[2]) >>

\* A soil with neither cohesion nor friction.
Loose == <<0, 0>>

\* A friction angle that process_geotechnical_data turns into exactly 10
\* degrees, over one that it turns into 10 + epsilon.
TenDegrees ==
    [TwoLayers(CPhi20, CPhi30) EXCEPT ![1].fi = 10 * SCALE - EPS,
                                       ![2].fi = 10 * SCALE]

Profiles ==
    { TwoLayers(Clay50, Clay80), TwoLayers(Clay80, Clay50),
      TwoLayers(Clay50, Clay40), TwoLayers(Clay50, Clay50),
      TwoLayers(Sand30, Clay50), TwoLayers(Clay50, Sand30),
      TwoLayers(CPhi20, CPhi30), TwoLayers(CPhi20, CPhi20),
      ThreeLayers(Clay50, Sand30, CPhi20),
      TwoLayers(Loose, Clay50), TenDegrees }

\* Embedment depths of the worksheet; the second list ends below the
\* profile.
DepthLists ==
    << <<Milli(1000), Milli(1800)>>, <<Milli(1000), Milli(12000)>> >>

\* Groundwater level, load inclination, design code, embedment depths and
\* footing widths of the worksheet.
\* The rows of footing widths a worksheet can hold: the widths up to
\* MaxWidth, or a row with a negative cell, which nothing rejects.
WidthLists ==
    << [i \in 1..MaxWidth |-> i * SCALE], <<-SCALE, SCALE>> >>

Configs ==
    { <<Milli(500), 0, "Bowles_FS_3.0", 1, 1>>,
      <<Milli(2500), 0, "AASHTO_2020", 1, 1>>,
      <<Milli(20000), Milli(2000), "NSR_10", 1, 1>>,
      <<Milli(1500), Milli(2000), "", 1, 1>>,
      <<Milli(1200), 0, "Bowles_FS_3.0", 2, 1>>,
      <<Milli(2500), 0, "AASHTO_2020", 1, 2>> }

Sheets ==
    { [strata |-> p, Df_values |-> DepthLists[k[4]],
       B_values |-> WidthLists[k[5]],
       code |-> k[3], GWL |-> k[1], theta |-> k[2]] :
      p \in Profiles, k \in Configs }

\* Depths, widths and lengths of the single calls.
Depths ==
    {Milli(m) : m \in {-500, 0, 1000, 1500, 1800, 2000, 5000, 10000}}

\* Embedment depths of the capacity calls; the last one is the final depth
\* of the profile.
FootingDepths == {Milli(m) : m \in {1000, 1500, 1800, 2000, 10000}}

Widths == {i * SCALE : i \in 1..MaxWidth}

\* Widths and lengths that are not those of a footing.
InvalidGeometries ==
    { <<0, SCALE>>, <<SCALE, 0>>, <<-SCALE, SCALE>>, <<SCALE, -SCALE>>,
      <<-SCALE, -SCALE>> }

\* <<B, L>> of the calls of meyerhof_capacity.
Geometries == (Widths \X Widths) \cup InvalidGeometries

Footing(Df, B, L, load) == [Df |-> Df, B |-> B, L |-> L, load |-> load]

NotLoaded == [df |-> <<>>]

Idle == [op |-> "none"]

\* The epsilon a caller of meyerhof_capacity passes: the one the profile was
\* built with, as run_geotechnical_analysis does, or a larger one.
Epsilons == {data.epsilon, 2 * data.epsilon}

\* The allowable capacity of the result a, or 100 kPa when the calculation
\* failed.
LoadFrom(a) ==
    IF a.status = "ok" THEN a.allowable_bearing_capacity ELSE Milli(100000)

\* The load that stresses a 1 m x 1 m footing at 1 m depth exactly to its
\* allowable capacity.
LoadAtCapacity ==
    LoadFrom(calculate_allowable_capacity(data.df, SCALE, SCALE, SCALE,
                 data.GWL, data.Theta, data.epsilon, data.code))

\* Footing tables of the configuration worksheet: valid footings (one of
\* them with L < B), a footing below the profile, a footing of negative
\* width and a footing of zero width.
FootingTables ==
    { << Footing(SCALE, SCALE, SCALE, LoadAtCapacity),
         Footing(Milli(1800), 2 * SCALE, SCALE, Milli(100000)),
         Footing(Milli(1500), SCALE, 2 * SCALE, Milli(900000)) >>,
      << Footing(SCALE, SCALE, 2 * SCALE, Milli(100000)),
         Footing(Milli(12000), SCALE, SCALE, Milli(100000)) >>,
      << Footing(SCALE, -SCALE, SCALE, Milli(100000)) >>,
      << Footing(SCALE, SCALE, SCALE, Milli(100000)),
         Footing(SCALE, 0, SCALE, Milli(100000)) >> }

---------------------------------------------------------------------------
(* data_io.py, plotting.py and the constants of main.py                    *)

\* The three values load_geotechnical_data returns on a failure.
NoneTriple == <<None, None, None>>

\* Faulty variant: without the second sheet, what was loaded so far.
load_geotechnical_data_partial(file) ==
    IF ~file.exists THEN NoneTriple
    ELSE IF ~file.workbook THEN NoneTriple
    ELSE IF "geotechnical_input" \notin file.sheetnames THEN NoneTriple
    ELSE IF "footing_configuration" \notin file.sheetnames
    THEN <<"workbook", "geotechnical_input", None>>
    ELSE <<"workbook", "geotechnical_input", "footing_configuration">>

\* FileNotFoundError and every other exception of openpyxl.load_workbook are
\* caught; a missing sheet returns at once.
load_geotechnical_data(file) ==
    IF ~file.exists THEN NoneTriple
    ELSE IF ~file.workbook THEN NoneTriple
    ELSE IF "geotechnical_input" \notin file.sheetnames THEN NoneTriple
    ELSE IF "footing_configuration" \notin file.sheetnames THEN NoneTriple
    ELSE <<"workbook", "geotechnical_input", "footing_configuration">>

OUTPUT_DIR == "output"

RESULTS_FILENAME == "Results_Bearing_Capacity"

CHARTS_FILENAME == "Charts_bearing_capacity"

\* os.path.join(output_dir, name), the name kept as base and extension.
Join(output_dir, name) ==
    [dir |-> output_dir, base |-> name.base, ext |-> name.ext]

\* f"{excel_filename}.xlsx"
WithXlsx(excel_filename) == [base |-> excel_filename, ext |-> ".xlsx"]

\* excel_filename as it was passed.
AsPassed(excel_filename) == [base |-> excel_filename, ext |-> ""]

\* The extensions openpyxl.load_workbook accepts.
SupportedFormats == {".xlsx", ".xlsm", ".xltx", ".xltm"}

\* The files after export_multiple_dataframes: the workbook at
\* output_dir/excel_filename.xlsx, unless the writer failed (the exception
\* is caught and printed).
export_multiple_dataframes(files, output_dir, excel_filename, written) ==
    IF written THEN files \cup {Join(output_dir, WithXlsx(excel_filename))}
    ELSE files

\* The keys of the figures, one for each embedment depth of the table; an
\* empty table has no columns.
generate_capacity_charts(rows) ==
    IF rows = << >> THEN [status |-> "ValueError", figures |-> {}]
    ELSE [status |-> "ok",
          figures |-> {rows[r].Df : r \in 1..Len(rows)}]

\* export_charts_to_excel opens output_dir/excel_filename; both exceptions
\* are caught and printed, and nothing is saved.
export_charts_to_excel(files, figures_dict, output_dir, excel_filename) ==
    IF Join(output_dir, AsPassed(excel_filename)).ext \notin SupportedFormats
    THEN [charts |-> "Exception",
          path |-> Join(output_dir, AsPassed(excel_filename))]
    ELSE IF Join(output_dir, AsPassed(excel_filename)) \notin files
    THEN [charts |-> "FileNotFoundError",
          path |-> Join(output_dir, AsPassed(excel_filename))]
    ELSE [charts |-> "saved",
          path |-> Join(output_dir, AsPassed(excel_filename))]

\* What the path given to run_geotechnical_analysis names.
InputFile(exists, workbook, sheetnames) ==
    [exists |-> exists, workbook |-> workbook, sheetnames |-> sheetnames]

InputFiles ==
    { InputFile(TRUE, TRUE, {"geotechnical_input", "footing_configuration"}),
      InputFile(FALSE, FALSE, {}),
      InputFile(TRUE, FALSE, {}),
      InputFile(TRUE, TRUE, {"footing_configuration"}),
      InputFile(TRUE, TRUE, {"geotechnical_input"}) }

\* run_geotechnical_analysis before its first statement.
Started ==
    [pc |-> "start", wb |-> << >>, files |-> {}, table |-> << >>,
     figures |-> {}, charts |-> "none", path |-> "none"]

---------------------------------------------------------------------------
(* The state machine: run_geotechnical_analysis loads the workbook and     *)
(* processes the worksheet once, then the functions are called one at a    *)
(* time; ret holds the call in progress and its result until the caller    *)
(* takes it; the capacity table is exported and charted at the end.        *)

Init ==
    /\ sheet \in Sheets
    /\ input \in InputFiles
    /\ data = NotLoaded
    /\ ret = Idle
    /\ run = Started

LoadGeotechnicalData ==
    /\ run.pc = "start"
    /\ run' = [run EXCEPT !.pc = "loaded",
                          !.wb = load_geotechnical_data(input)]
    /\ UNCHANGED <<sheet, data, ret, input>>

\* if workbook is None: return
StopOnLoadError ==
    /\ run.pc = "loaded"
    /\ run.wb[1] = None
    /\ run' = [run EXCEPT !.pc = "stopped"]
    /\ UNCHANGED <<sheet, data, ret, input>>

ProcessGeotechnicalData ==
    /\ run.pc = "loaded"
    /\ run.wb[1] # None
    /\ data = NotLoaded
    /\ data' = process_geotechnical_data(sheet, EPS)
    /\ run' = [run EXCEPT !.pc = "processed"]
    /\ UNCHANGED <<sheet, ret, input>>

Ready == data # NotLoaded /\ ret = Idle /\ run.pc = "processed"

GetStratumId ==
    /\ Ready
    /\ \E Df \in Depths :
          ret' = [op |-> "get_stratum_id", Df |-> Df, status |-> "ok",
                  out |-> get_stratum_id(data.df, Df)]
    /\ UNCHANGED <<sheet, data, input, run>>

GetStratumDescription ==
    /\ Ready
    /\ \E Df \in Depths :
          ret' = [op |-> "get_stratum_description", Df |-> Df,
                  status |-> "ok",
                  out |-> get_stratum_description(data.df, Df)]
    /\ UNCHANGED <<sheet, data, input, run>>

GetStratumParameters ==
    /\ Ready
    /\ \E Df \in Depths :
          ret' = [op |-> "get_stratum_parameters", Df |-> Df,
                  out |-> get_stratum_parameters(data.df, Df)]
    /\ UNCHANGED <<sheet, data, input, run>>

CalculateEffectiveOverburden ==
    /\ Ready
    /\ \E Df \in Depths, B \in Widths :
          ret' = [op |-> "calculate_effective_overburden", Df |-> Df,
                  B |-> B,
                  out |-> calculate_effective_overburden(data.df, Df,
                                                         data.GWL, B)]
    /\ UNCHANGED <<sheet, data, input, run>>

MeyerhofCapacity ==
    /\ Ready
    /\ \E Df \in FootingDepths, g \in Geometries, e \in Epsilons :
          ret' = [op |-> "meyerhof_capacity", Df |-> Df, B |-> g[1],
                  L |-> g[2], epsilon |-> e,
                  out |-> meyerhof_capacity(data.df, Df, g[1], g[2],
                                            data.GWL, data.Theta, e)]
    /\ UNCHANGED <<sheet, data, input, run>>

CalculateAllowableCapacity ==
    /\ Ready
    /\ \E Df \in FootingDepths, B \in Widths, L \in Widths :
          ret' = [op |-> "calculate_allowable_capacity", Df |-> Df, B |-> B,
                  L |-> L, epsilon |-> data.epsilon,
                  out |-> calculate_allowable_capacity(data.df, Df, B, L,
                             data.GWL, data.Theta, data.epsilon, data.code)]
    /\ UNCHANGED <<sheet, data, input, run>>

GenerateCapacityTable ==
    /\ Ready
    /\ ret' = [op |-> "generate_capacity_table", epsilon |-> data.epsilon,
                out |-> generate_capacity_table(data.df, data.Df_values,
                           data.B_values, data.L_values, data.GWL,
                           data.Theta, data.epsilon, data.code)]
    /\ UNCHANGED <<sheet, data, input, run>>

CheckStructuralDesignCapacity ==
    /\ Ready
    /\ \E footings \in FootingTables :
          ret' = [op |-> "check_structural_design_capacity",
                  footings |-> footings, epsilon |-> data.epsilon,
                  out |-> check_structural_design_capacity(footings, data.df,
                             data.GWL, data.Theta, data.epsilon, data.code)]
    /\ data' = [data EXCEPT !.df = GeotechAfterCheck(data.df, ret'.out)]
    /\ UNCHANGED <<sheet, input, run>>

\* The caller takes the result.
Return ==
    /\ ret # Idle
    /\ ret' = Idle
    /\ UNCHANGED <<sheet, data, input, run>>

\* The capacity table just generated goes to the results workbook.
ExportMultipleDataframes ==
    /\ run.pc = "processed"
    /\ ret.op = "generate_capacity_table" /\ ret.out.status = "ok"
    /\ \E written \in BOOLEAN :
          run' = [run EXCEPT !.pc = "exported", !.table = ret.out.rows,
                     !.files = export_multiple_dataframes(run.files,
                                  OUTPUT_DIR, RESULTS_FILENAME, written)]
    /\ ret' = Idle
    /\ UNCHANGED <<sheet, data, input>>

GenerateCapacityCharts ==
    /\ run.pc = "exported"
    /\ run' = [run EXCEPT
                 !.pc = IF generate_capacity_charts(run.table).status = "ok"
                        THEN "charted" ELSE "raised",
                 !.figures = generate_capacity_charts(run.table).figures]
    /\ UNCHANGED <<sheet, data, ret, input>>

ExportChartsToExcel ==
    /\ run.pc = "charted"
    /\ run' = [run EXCEPT !.pc = "done",
                 !.charts = export_charts_to_excel(run.files, run.figures,
                                OUTPUT_DIR, CHARTS_FILENAME).charts,
                 !.path = export_charts_to_excel(run.files, run.figures,
                              OUTPUT_DIR, CHARTS_FILENAME).path]
    /\ UNCHANGED <<sheet, data, ret, input>>

Next ==
    \/ LoadGeotechnicalData
    \/ StopOnLoadError
    \/ ProcessGeotechnicalData
    \/ ExportMultipleDataframes
    \/ GenerateCapacityCharts
    \/ ExportChartsToExcel
    \/ GetStratumId
    \/ GetStratumDescription
    \/ GetStratumParameters
    \/ CalculateEffectiveOverburden
    \/ MeyerhofCapacity
    \/ CalculateAllowableCapacity
    \/ GenerateCapacityTable
    \/ CheckStructuralDesignCapacity
    \/ Return

Spec == Init /\ [][Next]_vars

---------------------------------------------------------------------------
(* Properties                                                              *)

MeyerhofOk == ret.op = "meyerhof_capacity" /\ ret.out.status = "ok"

\* Position of the stratum holding the depth of the call, by its interval.
Located == CHOOSE i \in 1..Len(data.df) :
              data.df[i].ini <= ret.Df /\ ret.Df < data.df[i].fin

\* Position of the stratum below it; the located one when it is the last.
Below == IF Located < Len(data.df) THEN Located + 1 ELSE Located

\* The profile with other strength parameters in the stratum below.
WithLayerBelow(soil) ==
    [j \in 1..Len(data.df) |->
        IF j = Located + 1
        THEN [data.df[j] EXCEPT !.c = soil[1], !.fi = soil[2]]
        ELSE data.df[j]]

OtherSoils ==
    { <<Milli(40000) + EPS, EPS>>, <<EPS, Milli(30000) + EPS>>,
      <<Milli(20000) + EPS, Milli(30000) + EPS>> }

SameLayers == ret.out.c2 = ret.out.c1 /\ ret.out.fi2 = ret.out.fi1

Close(a, b, tol) == a - b <= tol /\ b - a <= tol

\* The call repeated on another profile returns the same two capacities.
SameCapacities(alt) ==
    /\ alt.status = "ok"
    /\ alt.q_ult_bilayer = ret.out.q_ult_bilayer
    /\ alt.q_ult_1 = ret.out.q_ult_1

\* C1: whenever d1 >= H (equality included) meyerhof_capacity returns a
\* bilayer capacity identical to the single-layer capacity q_ult_1, and the
\* returned values stay the same when only the cohesion or friction angle of
\* the stratum below is changed.
C1_NoInteractionShortcut ==
    (MeyerhofOk /\ ret.out.d1 >= ret.out.H) =>
        /\ ret.out.q_ult_bilayer = ret.out.q_ult_1
        /\ \A soil \in OtherSoils :
              SameCapacities(
                  meyerhof_capacity(WithLayerBelow(soil), ret.Df, ret.B,
                      ret.L, data.GWL, data.Theta, ret.epsilon))

\* A call with d1 = H exactly over a stratum of different strength.
C1_Witness ==
    /\ MeyerhofOk
    /\ ret.out.d1 = ret.out.H
    /\ ret.out.c2 # ret.out.c1
    /\ ret.out.q_ult_2 # ret.out.q_ult_1
    /\ ret.out.q_ult_bilayer = ret.out.q_ult_1

\* C2 as stated: whenever the layer below has the same cohesion and friction
\* angle as the embedment layer, the bilayer capacity equals the single-layer
\* capacity, both when d1 >= H and when d1 < H.
C2_HomogeneousIdentity ==
    (MeyerhofOk /\ SameLayers) => ret.out.q_ult_bilayer = ret.out.q_ult_1

\* C2 amended: with equal layers the bilayer capacity equals the single-layer
\* capacity when d1 >= H; when d1 < H the punching-shear branch is never
\* taken, the clay-on-clay branch evaluates the layer-1 formula with the
\* corrected factor Ncs of a ratio CR = c1 / (c1 + epsilon) <= 1 in the place
\* of Nc, and the averaging branch evaluates it with phi_avg <= phi1 and
\* c_avg <= c1.
C2_HomogeneousAmended ==
    (MeyerhofOk /\ SameLayers) =>
        /\ ret.out.d1 >= ret.out.H => ret.out.q_ult_bilayer = ret.out.q_ult_1
        /\ ret.out.d1 < ret.out.H =>
              /\ ret.out.case \in {"case1", "case2"}
              /\ ret.out.case = "case1" =>
                    /\ ret.out.CR <= SCALE
                    /\ ret.out.Ncs \in
                          { NcsLow(ret.out.d1, ret.B, ret.out.CR),
                            NcsMid(ret.out.d1, ret.B, ret.out.CR) }
              /\ ret.out.case = "case2" =>
                    /\ ret.out.fi_avg <= ret.out.fi1
                    /\ ret.out.c_avg <= ret.out.c1

\* Equal layers with d1 < H: the averaging branch runs with a friction angle
\* below phi1 and returns another value than the single-layer capacity.
C2_Witness ==
    /\ MeyerhofOk
    /\ SameLayers
    /\ ret.out.d1 < ret.out.H
    /\ ret.out.case = "case2"
    /\ ret.out.fi_avg < ret.out.fi1
    /\ ret.out.q_ult_bilayer # ret.out.q_ult_1

\* C3: with the epsilon the profile was built with, a stratum whose input
\* friction angle is 0 is classified as clay and one whose input cohesion is
\* 0 as sand; two strata of input friction angle 0 with d1 < H are evaluated
\* by the clay-on-clay branch.
C3_ZeroFrictionIsClay ==
    (/\ MeyerhofOk
     /\ ret.epsilon = data.epsilon
     /\ ret.out.d1 < ret.out.H) =>
        /\ sheet.strata[Located].fi = 0 => ret.out.fi1 < ret.epsilon
        /\ sheet.strata[Located].c = 0 => ret.out.c1 < ret.epsilon
        /\ (sheet.strata[Located].fi = 0 /\ sheet.strata[Below].fi = 0) =>
              ret.out.case = "case1"

\* C4: in the sand-on-clay or clay-on-sand branch the bilayer capacity is the
\* smaller of q_ult_1 and q_ult_prime, so it exceeds neither.
C4_PunchingShearBound ==
    (/\ MeyerhofOk
     /\ ret.out.d1 < ret.out.H
     /\ ~(ret.out.fi1 < ret.epsilon /\ ret.out.fi2 < ret.epsilon)
     /\ \/ ret.out.c1 < ret.epsilon /\ ret.out.fi2 < ret.epsilon
        \/ ret.out.fi1 < ret.epsilon /\ ret.out.c2 < ret.epsilon) =>
        /\ ret.out.case \in {"case3_a", "case3_b"}
        /\ ret.out.q_ult_bilayer <= ret.out.q_ult_1
        /\ ret.out.q_ult_bilayer <= ret.out.q_ult_prime
        /\ ret.out.q_ult_bilayer \in {ret.out.q_ult_1, ret.out.q_ult_prime}

\* A punching-shear call in which the two candidates differ.
C4_Witness ==
    /\ MeyerhofOk
    /\ ret.out.case \in {"case3_a", "case3_b"}
    /\ ret.out.q_ult_prime < ret.out.q_ult_1
    /\ ret.out.q_ult_bilayer = ret.out.q_ult_prime

\* C5 as stated: for the d1 and B of a clay-on-clay call, the branch for
\* CR < 0.7 and the branch for 0.7 <= CR <= 1 agree at CR = 0.7, and that
\* branch and the branch for CR > 1 agree at CR = 1 (within 0.01).
C5_NcsContinuous ==
    (MeyerhofOk /\ ret.out.case = "case1") =>
        /\ Close(NcsLow(ret.out.d1, ret.B, Milli(700)),
                 NcsMid(ret.out.d1, ret.B, Milli(700)), Milli(10))
        /\ Close(NcsMid(ret.out.d1, ret.B, SCALE),
                 NcsHigh(ret.out.d1, ret.B, ret.epsilon), Milli(10))

\* C5 amended: Ncs jumps at both boundaries.  At CR = 0.7 the branch for
\* 0.7 <= CR <= 1 gives 0.9 times the value of the formula for CR < 0.7, which
\* is strictly smaller; at CR = 1 it gives a value strictly below the one of
\* the branch for CR > 1 (for an epsilon of at most 0.02 and a width of at
\* least 0.5 m).  The factor used is the one of the branch CR selects.
C5_NcsJumps ==
    (MeyerhofOk /\ ret.out.case = "case1") =>
        LET low == NcsLow(ret.out.d1, ret.B, Milli(700))
            mid == NcsMid(ret.out.d1, ret.B, Milli(700))
        IN  /\ mid < low
            /\ Close(mid, Mul(Milli(900), low), 1)
            /\ (ret.epsilon <= Milli(20) /\ ret.B >= Milli(500)) =>
                  NcsMid(ret.out.d1, ret.B, SCALE)
                     < NcsHigh(ret.out.d1, ret.B, ret.epsilon)
            /\ ret.out.Ncs =
                  IF ret.out.CR < Milli(700)
                  THEN NcsLow(ret.out.d1, ret.B, ret.out.CR)
                  ELSE IF ret.out.CR <= SCALE
                  THEN NcsMid(ret.out.d1, ret.B, ret.out.CR)
                  ELSE NcsHigh(ret.out.d1, ret.B, ret.epsilon)

\* A clay-on-clay call whose ratio lies in the middle branch.
C5_Witness ==
    /\ MeyerhofOk
    /\ ret.out.case = "case1"
    /\ Milli(700) <= ret.out.CR
    /\ ret.out.CR <= SCALE
    /\ ret.out.Ncs = NcsMid(ret.out.d1, ret.B, ret.out.CR)

AllowableOk == ret.op = "calculate_allowable_capacity" /\ ret.out.status = "ok"

\* C6: calculate_allowable_capacity returns as ultimate capacity the bilayer
\* capacity of meyerhof_capacity and as allowable capacity that value divided
\* by 3 for "Bowles_FS_3.0", multiplied by 0.45 for "AASHTO_2020", and for
\* any other Code it raises no error and returns the allowable capacity of
\* "Bowles_FS_3.0".
C6_AllowableCapacity ==
    ret.op = "calculate_allowable_capacity" =>
        LET m == meyerhof_capacity(data.df, ret.Df, ret.B, ret.L, data.GWL,
                                   data.Theta, data.epsilon)
            bowles == calculate_allowable_capacity(data.df, ret.Df, ret.B,
                         ret.L, data.GWL, data.Theta, data.epsilon,
                         "Bowles_FS_3.0")
            ult == ret.out.ultimate_bearing_capacity
            adm == ret.out.allowable_bearing_capacity
        IN  /\ ret.out.status = m.status
            /\ ret.out.status = "ok" =>
                  /\ ult = m.q_ult_bilayer
                  /\ data.code = "Bowles_FS_3.0" =>
                        3 * adm <= ult /\ ult <= 3 * adm + 2
                  /\ data.code = "AASHTO_2020" =>
                        Close(adm, Mul(Milli(450), ult), ult \div SCALE + 2)
                  /\ data.code \notin {"Bowles_FS_3.0", "AASHTO_2020"} =>
                        /\ adm = bowles.allowable_bearing_capacity
                        /\ 3 * adm <= ult /\ ult <= 3 * adm + 2

\* A call with a Code that is neither of the two known ones.
C6_Witness ==
    /\ AllowableOk
    /\ data.code \notin {"Bowles_FS_3.0", "AASHTO_2020"}
    /\ ret.out.allowable_bearing_capacity > 0
    /\ ret.out.allowable_bearing_capacity < ret.out.ultimate_bearing_capacity

TableOk == ret.op = "generate_capacity_table" /\ ret.out.status = "ok"

\* The combinations of the loaded configuration with L >= B.
StandardCombinations ==
    { t \in (1..Len(data.Df_values)) \X (1..Len(data.B_values))
               \X (1..Len(data.L_values)) :
         data.L_values[t[3]] >= data.B_values[t[2]] }

RowsOf(t) ==
    { r \in 1..Len(ret.out.rows) :
         /\ ret.out.rows[r].Df = data.Df_values[t[1]]
         /\ ret.out.rows[r].B = data.B_values[t[2]]
         /\ ret.out.rows[r].L = data.L_values[t[3]] }

\* C7: generate_capacity_table emits exactly one row for every (Df, B, L) of
\* Df_values x B_values x L_values with L >= B (L = B included) and no row
\* for a combination with L < B; skipped combinations raise no error and run
\* no capacity calculation.
C7_TableRows ==
    TableOk =>
        /\ Len(ret.out.rows) = Cardinality(StandardCombinations)
        /\ \A t \in StandardCombinations : Cardinality(RowsOf(t)) = 1
        /\ \A r \in 1..Len(ret.out.rows) :
              ret.out.rows[r].L >= ret.out.rows[r].B
        /\ ret.out.calculated = Len(ret.out.rows)

\* A table with a row of L = B that skipped some combination.
C7_Witness ==
    /\ TableOk
    /\ \E r \in 1..Len(ret.out.rows) : ret.out.rows[r].L = ret.out.rows[r].B
    /\ ret.out.calculated
          < Len(data.Df_values) * Len(data.B_values) * Len(data.L_values)

Lookup == ret.op \in {"get_stratum_id", "get_stratum_description"}

InRange ==
    /\ data.df[1].ini <= ret.Df
    /\ ret.Df < data.df[Len(data.df)].fin

Containing ==
    { i \in 1..Len(data.df) :
         data.df[i].ini <= ret.Df /\ ret.Df < data.df[i].fin }

\* C8: for every depth with first.initial <= depth < last.final,
\* get_stratum_id returns the unique stratum with initial <= depth < final (a
\* depth on a shared boundary yields the lower stratum, never the upper one)
\* and get_stratum_description returns the description of that stratum.
C8_StratumLookup ==
    (Lookup /\ InRange) =>
        /\ Cardinality(Containing) = 1
        /\ \A i \in Containing :
              /\ ret.op = "get_stratum_id" => ret.out = data.df[i].id
              /\ ret.op = "get_stratum_description" =>
                    ret.out = data.df[i].desc
        /\ \A i \in 1..(Len(data.df) - 1) :
              ret.Df = data.df[i].fin =>
                 /\ ret.op = "get_stratum_id" => ret.out = data.df[i + 1].id
                 /\ ret.op = "get_stratum_description" =>
                       ret.out = data.df[i + 1].desc

\* A lookup at the boundary shared by the first two strata.
C8_Witness ==
    /\ ret.op = "get_stratum_id"
    /\ Len(data.df) > 1
    /\ ret.Df = data.df[1].fin
    /\ ret.out = data.df[2].id

\* C9: get_stratum_parameters returns (c1, phi1) of the stratum located at
\* the depth and (c2, phi2) of the stratum right after it in profile order;
\* when the located stratum is the last one, (c2, phi2) = (c1, phi1).
C9_StratumParameters ==
    (ret.op = "get_stratum_parameters" /\ InRange) =>
        /\ ret.out.status = "ok"
        /\ ret.out.c1 = data.df[Located].c
        /\ ret.out.phi1 = data.df[Located].fi
        /\ ret.out.c2 = data.df[Below].c
        /\ ret.out.phi2 = data.df[Below].fi
        /\ Located = Len(data.df) =>
              ret.out.c2 = ret.out.c1 /\ ret.out.phi2 = ret.out.phi1

\* A call in the last stratum of a profile whose stratum above differs.
C9_Witness ==
    /\ ret.op = "get_stratum_parameters"
    /\ InRange
    /\ Located = Len(data.df)
    /\ Len(data.df) > 1
    /\ data.df[Located - 1].c # data.df[Located].c
    /\ ret.out.c2 = ret.out.c1

\* C10: for every depth outside the covered range (depth < first.initial or
\* depth >= last.final) get_stratum_id and get_stratum_description fail with
\* a not-found failure and never return a value to the caller.
C10_LookupOutOfRange ==
    (Lookup /\ ~InRange) => ret.status # "ok"

Covered(Df) ==
    /\ data.df[1].ini <= Df
    /\ Df < data.df[Len(data.df)].fin

CapacityCall ==
    ret.op \in {"meyerhof_capacity", "calculate_allowable_capacity"}

TableCall == ret.op = "generate_capacity_table"

DesignCall == ret.op = "check_structural_design_capacity"

\* Some combination of the table passes the test L >= B.
SomeStandard ==
    \E i \in 1..Len(data.B_values), j \in 1..Len(data.L_values) :
       data.L_values[j] >= data.B_values[i]

\* C11: when the embedment depth is outside the covered range, none of
\* meyerhof_capacity, calculate_allowable_capacity, generate_capacity_table
\* and check_structural_design_capacity returns a capacity or a row for that
\* depth: the KeyError of the lookup reaches the caller and no stratum
\* stands in for the missing one.
C11_OutOfRangeSurfaces ==
    /\ (CapacityCall /\ ~Covered(ret.Df)) => ret.out = [status |-> "KeyError"]
    /\ (TableCall /\ SomeStandard
          /\ \E i \in 1..Len(data.Df_values) : ~Covered(data.Df_values[i])) =>
          /\ ret.out.status = "KeyError"
          /\ ret.out.rows = <<>>
    /\ (DesignCall
          /\ \E i \in 1..Len(ret.footings) : ~Covered(ret.footings[i].Df)) =>
          /\ ret.out.status = "KeyError"
          /\ ret.out.rows = <<>>

\* A table whose first depth was calculated before the depth below the
\* profile ended the run.
C11_Witness ==
    /\ TableCall
    /\ Covered(data.Df_values[1])
    /\ ~Covered(data.Df_values[2])
    /\ ret.out.calculated > 1
    /\ ret.out.status = "KeyError"

\* C12: for every footing whose width B or length L is zero or negative,
\* meyerhof_capacity and check_structural_design_capacity surface a failure
\* to the caller instead of returning a capacity, a design stress or a
\* pass/fail flag.
C12_InvalidGeometrySurfaces ==
    /\ (ret.op = "meyerhof_capacity" /\ (ret.B <= 0 \/ ret.L <= 0)) =>
          ret.out.status # "ok"
    /\ (DesignCall
          /\ \E i \in 1..Len(ret.footings) :
                ret.footings[i].B <= 0 \/ ret.footings[i].L <= 0) =>
          ret.out.status # "ok"

OverburdenCall == ret.op = "calculate_effective_overburden"

\* Soil of a row between the surface and Df that lies above the water.
MoistThickness(row, Df, GWL) ==
    Max2(0, Min2(Min2(row.fin, Df), GWL) - row.ini)

\* Soil of a row between the surface and Df that lies below the water.
SubmergedThickness(row, Df, GWL) ==
    Max2(0, Min2(row.fin, Df) - Max2(row.ini, GWL))

RECURSIVE ReferenceOverburden(_, _, _, _)
\* Thickness times unit weight, summed over the rows from the i-th on.
ReferenceOverburden(d, Df, GWL, i) ==
    IF i > Len(d) THEN 0
    ELSE Mul(MoistThickness(d[i], Df, GWL), d[i].ym)
         + Mul(SubmergedThickness(d[i], Df, GWL),
               d[i].ysat - WATER_UNIT_WEIGHT)
         + ReferenceOverburden(d, Df, GWL, i + 1)

\* C13: for a contiguous profile starting at depth 0 and every depth Df in
\* range and every GWL, the q_bar of calculate_effective_overburden is the
\* sum, over the soil between the surface and Df, of thickness times unit
\* weight, the soil above GWL with its moist weight and the soil below GWL
\* with its submerged weight (saturated minus 9.81); strata below Df add
\* nothing.
C13_OverburdenSum ==
    (OverburdenCall /\ Covered(ret.Df)) =>
        /\ ret.out.status = "ok"
        /\ ret.out.q_bar = ReferenceOverburden(data.df, ret.Df, data.GWL, 1)

\* A call whose water level splits one stratum above Df, with a further
\* stratum between it and Df.
C13_Witness ==
    /\ OverburdenCall
    /\ Covered(ret.Df)
    /\ \E i \in 1..(Len(data.df) - 1) :
          /\ data.df[i].ini < data.GWL
          /\ data.GWL < data.df[i].fin
          /\ data.df[i + 1].ini < ret.Df
    /\ ret.out.q_bar > 0

\* The effective unit weight of a stratum for a footing of width B at Df.
ReferenceGamma(row, Df, GWL, B) ==
    IF GWL < Df THEN row.ysat - WATER_UNIT_WEIGHT
    ELSE IF GWL < Df + B
    THEN (row.ysat - WATER_UNIT_WEIGHT)
         + Mul(Div(GWL - Df, B), row.ym - (row.ysat - WATER_UNIT_WEIGHT))
    ELSE row.ym

\* C14: for every depth Df in range, a depth on the boundary of two strata
\* included, the gamma_bar of calculate_effective_overburden comes from the
\* moist and submerged weights of the stratum get_stratum_id locates at Df:
\* the submerged weight when GWL < Df, submerged + ((GWL - Df) / B) * (moist -
\* submerged) when Df <= GWL < Df + B, the moist weight when GWL >= Df + B.
C14_GammaOfLocatedStratum ==
    (OverburdenCall /\ Covered(ret.Df)) =>
        /\ ret.out.status = "ok"
        /\ data.df[Located].id = get_stratum_id(data.df, ret.Df)
        /\ ret.out.gamma_bar =
              ReferenceGamma(data.df[Located], ret.Df, data.GWL, ret.B)

\* A depth on the boundary of two strata of different weights, with the
\* water level inside the width B below it.
C14_Witness ==
    /\ OverburdenCall
    /\ Covered(ret.Df)
    /\ Located > 1
    /\ ret.Df = data.df[Located].ini
    /\ ret.Df < data.GWL
    /\ data.GWL < ret.Df + ret.B
    /\ ret.out.gamma_bar
          # ReferenceGamma(data.df[Located - 1], ret.Df, data.GWL, ret.B)

DesignOk == DesignCall /\ ret.out.status = "ok"

\* The allowable capacity of the i-th footing of the table.
AllowableOf(i) ==
    calculate_allowable_capacity(data.df, ret.footings[i].Df,
        ret.footings[i].B, ret.footings[i].L, data.GWL, data.Theta,
        data.epsilon, data.code).allowable_bearing_capacity

\* C15: for each record of the footing table, in input order and whether or
\* not L >= B, check_structural_design_capacity computes the design stress
\* load / (B * L) and flags the record compliant exactly when the allowable
\* capacity of calculate_allowable_capacity is >= the design stress
\* (equality counts as compliant); the output has one result per record.
C15_DesignCheck ==
    DesignOk =>
        /\ Len(ret.out.rows) = Len(ret.footings)
        /\ \A i \in 1..Len(ret.footings) :
              /\ ret.out.rows[i].Df = ret.footings[i].Df
              /\ ret.out.rows[i].B = ret.footings[i].B
              /\ ret.out.rows[i].L = ret.footings[i].L
              /\ ret.out.rows[i].load = ret.footings[i].load
              /\ ret.out.rows[i].q_adm = AllowableOf(i)
              /\ ret.out.rows[i].design_stress =
                    Div(ret.footings[i].load,
                        Mul(ret.footings[i].B, ret.footings[i].L))
              /\ ret.out.rows[i].is_compliant =
                    (ret.out.rows[i].q_adm >= ret.out.rows[i].design_stress)

\* A table with a footing loaded exactly to its capacity (compliant), a
\* footing with L < B and a footing that fails.
C15_Witness ==
    /\ DesignOk
    /\ \E i \in 1..Len(ret.out.rows) :
          /\ ret.out.rows[i].q_adm = ret.out.rows[i].design_stress
          /\ ret.out.rows[i].is_compliant
    /\ \E i \in 1..Len(ret.out.rows) : ret.out.rows[i].L < ret.out.rows[i].B
    /\ \E i \in 1..Len(ret.out.rows) : ~ret.out.rows[i].is_compliant

\* C16: no core operation changes the soil-profile table or the analysis
\* configuration (GWL, Theta, epsilon, Code) it is given: once the worksheet
\* is processed, every call leaves them as they were.
C16_InputsReadOnly ==
    [][data # NotLoaded => (data' = data /\ sheet' = sheet)]_vars

\* A design check has returned the footing table with its new columns and
\* the profile and configuration are those the worksheet gave.
C16_Witness ==
    /\ DesignOk
    /\ Len(ret.out.rows) > 1
    /\ data = process_geotechnical_data(sheet, EPS)

\* The shape and depth factors of a friction angle fi as the claim states
\* them: 1 up to 10 degrees, the formulas above.
ThresholdFactors(fi, Sq_, Sy, dq, dy) ==
    IF fi <= 10 * SCALE
    THEN Sq_ = SCALE /\ Sy = SCALE /\ dq = SCALE /\ dy = SCALE
    ELSE /\ Sq_ = SCALE + Mul(Mul(Milli(100), Kp(fi)), Div(ret.B, ret.L))
         /\ Sy = Sq_
         /\ dq = SCALE + Mul(Mul(Milli(100), Sqrt(Kp(fi))), Div(ret.Df, ret.B))
         /\ dy = dq

\* C18: for every friction angle of at most 10 degrees, 10 included, the
\* factors Sq, S_gamma, dq and d_gamma are exactly 1, and for every angle
\* above 10 they are 1 + 0.1 * Kp * (B / L) and 1 + 0.1 * sqrt(Kp) * (Df / B);
\* this holds for the factors of layer 1 (phi1), of layer 2 (phi2) and of
\* the averaged angle (phi_avg).
C18_FactorThreshold ==
    MeyerhofOk =>
        /\ ThresholdFactors(ret.out.fi1, ret.out.Sq, ret.out.Sy,
                            ret.out.dq, ret.out.dy)
        /\ ThresholdFactors(ret.out.fi2, ret.out.Sq2, ret.out.Sy2,
                            ret.out.dq2, ret.out.dy2)
        /\ ret.out.case = "case2" =>
              ThresholdFactors(ret.out.fi_avg, ret.out.Sq_avg,
                               ret.out.Sy_avg, ret.out.dq_avg,
                               ret.out.dy_avg)

\* An angle of exactly 10 degrees in layer 1 with factors 1, an angle above
\* it in layer 2 with factors above 1, and an averaged angle below 10.
C18_Witness ==
    /\ MeyerhofOk
    /\ ret.out.fi1 = 10 * SCALE
    /\ ret.out.Sq = SCALE /\ ret.out.dq = SCALE
    /\ ret.out.fi2 > 10 * SCALE
    /\ ret.out.Sq2 > SCALE /\ ret.out.dq2 > SCALE
    /\ ret.out.case = "case2"
    /\ ret.out.fi_avg < 10 * SCALE
    /\ ret.out.Sq_avg = SCALE

\* A capacity returned for a footing whose influence depth reaches the
\* second layer.
Interacting == MeyerhofOk /\ ret.out.d1 < ret.out.H

\* The classification tests on the parameters the call read.
IsClay1 == ret.out.fi1 < ret.epsilon
IsClay2 == ret.out.fi2 < ret.epsilon
IsSand1 == ret.out.c1 < ret.epsilon
IsSand2 == ret.out.c2 < ret.epsilon

\* The depth-weighted average was computed and gave the returned capacity.
AveragingUsed ==
    /\ ret.out.fi_avg =
          WeightedAverage(ret.out.d1, ret.out.H, ret.out.fi1, ret.out.fi2,
                          ret.epsilon)
    /\ ret.out.c_avg =
          WeightedAverage(ret.out.d1, ret.out.H, ret.out.c1, ret.out.c2,
                          ret.epsilon)
    /\ ret.out.CR = 0 /\ ret.out.Ncs = 0 /\ ret.out.q_ult_prime = 0

\* C19 as stated: when d1 < H the depth-weighted average is used only for
\* pairs in which neither layer is pure clay nor pure sand.
C19_AveragingOnlyWithoutPureLayer ==
    (Interacting /\ AveragingUsed) =>
        ~(IsClay1 \/ IsClay2 \/ IsSand1 \/ IsSand2)

\* C19 amended: when d1 < H the depth-weighted average is used exactly for
\* the pairs that are none of clay on clay (phi1 and phi2 below epsilon),
\* sand on clay (c1 and phi2 below epsilon) and clay on sand (phi1 and c2
\* below epsilon); a pair with a pure layer outside these three patterns is
\* averaged too.
C19_AveragingIsTheRemainder ==
    Interacting =>
        (AveragingUsed <=>
            /\ ~(IsClay1 /\ IsClay2)
            /\ ~(IsSand1 /\ IsClay2)
            /\ ~(IsClay1 /\ IsSand2))

\* A pair with a pure layer, outside the three patterns, that was averaged.
C19_Witness ==
    /\ Interacting
    /\ AveragingUsed
    /\ IsClay1 \/ IsClay2 \/ IsSand1 \/ IsSand2
    /\ ret.out.case = "case2"
    /\ ret.B > 0 /\ ret.L > 0

\* The capacity of the clay-on-clay computation for the returned values.
ClayOnClayCapacity(F) ==
    /\ ret.out.CR = ClayRatio(ret.out.c1, ret.out.c2, ret.epsilon)
    /\ ret.out.Ncs = CorrectedNc(ret.out.d1, ret.B, ret.out.CR, ret.epsilon)
    /\ ret.out.q_ult_bilayer =
          QUlt(ret.out.c1, ret.out.Ncs, F.Sc, F.dc, F.ic, ret.out.q_bar,
               F.Nq, F.Sq, F.dq, F.iq, ret.out.y_bar, ret.B, F.Ny, F.Sy,
               F.dy, F.iy)
    /\ ret.out.fi_avg = 0 /\ ret.out.c_avg = 0 /\ ret.out.q_ult_prime = 0

\* The capacity of the punching-shear computation for the returned values.
PunchingCapacity(F) ==
    /\ ret.out.q_ult_prime =
          PunchingShear(ret.out.q_ult_2, ret.out.c1, ret.out.fi1, F.kp,
                        ret.out.q_bar, ret.out.d1, ret.Df, ret.B, ret.L,
                        ret.epsilon)
    /\ ret.out.q_ult_bilayer = Min2(ret.out.q_ult_1, ret.out.q_ult_prime)
    /\ ret.out.CR = 0 /\ ret.out.Ncs = 0
    /\ ret.out.fi_avg = 0 /\ ret.out.c_avg = 0

\* The capacity of the averaging computation for the returned values.
AveragedCapacity(F, A) ==
    /\ AveragingUsed
    /\ ret.out.q_ult_bilayer =
          QUlt(ret.out.c_avg, A.Nc, F.Sc, F.dc, F.ic, ret.out.q_bar, A.Nq,
               A.Sq, A.dq, F.iq, ret.out.y_bar, ret.B, A.Ny, A.Sy, A.dy, A.iy)

\* C20: when d1 < H the four tests select exactly one of clay on clay, sand
\* on clay, clay on sand and c-phi on c-phi, clay on clay whenever both
\* friction angles are below epsilon, whatever else holds, and the returned
\* bilayer capacity is the one of that class, no value of another class
\* being computed.
C20_OneClass ==
    Interacting =>
        /\ ret.out.case \in {"case1", "case3_a", "case3_b", "case2"}
        /\ (IsClay1 /\ IsClay2) => ret.out.case = "case1"
        /\ (~IsClay1 /\ IsSand1 /\ IsClay2) => ret.out.case = "case3_a"
        /\ (IsClay1 /\ ~IsClay2 /\ IsSand2) => ret.out.case = "case3_b"
        /\ ret.out.case = "case1" =>
              ClayOnClayCapacity(LayerFactors(ret.out.fi1, ret.Df, ret.B,
                                              ret.L, data.Theta))
        /\ ret.out.case \in {"case3_a", "case3_b"} =>
              PunchingCapacity(LayerFactors(ret.out.fi1, ret.Df, ret.B,
                                            ret.L, data.Theta))
        /\ ret.out.case = "case2" =>
              /\ ~(IsClay1 /\ IsClay2)
              /\ ~(IsSand1 /\ IsClay2)
              /\ ~(IsClay1 /\ IsSand2)
              /\ AveragedCapacity(
                    LayerFactors(ret.out.fi1, ret.Df, ret.B, ret.L,
                                 data.Theta),
                    LayerFactors(ret.out.fi_avg, ret.Df, ret.B, ret.L,
                                 data.Theta))

\* Clay on clay and sand on clay both hold, and the clay-on-clay capacity
\* was returned.
C20_Witness ==
    /\ Interacting
    /\ IsClay1 /\ IsClay2 /\ IsSand1
    /\ ret.out.case = "case1"
    /\ ret.out.Ncs > 0
    /\ ret.out.q_ult_prime = 0
    /\ ret.B > 0 /\ ret.L > 0

\* The intersected thickness above Df of the row with the given id: the
\* whole row when it ends at or above Df, the part down to Df otherwise.
Intersected(id, Df) ==
    LET row == data.df[CHOOSE i \in 1..Len(data.df) : data.df[i].id = id]
    IN  Min2(row.fin, Df) - row.ini

\* C21: for every stratum that calculate_effective_overburden divides at the
\* groundwater level, h_moist and h_submerged are both >= 0 and their sum
\* is the stratum's intersected thickness above Df.
C21_PortionsPartition ==
    (OverburdenCall /\ ret.out.status = "ok") =>
        \A k \in 1..Len(ret.out.portions) :
            /\ ret.out.portions[k].h_moist >= 0
            /\ ret.out.portions[k].h_submerged >= 0
            /\ ret.out.portions[k].h_moist + ret.out.portions[k].h_submerged
                  = Intersected(ret.out.portions[k].id, ret.Df)

\* A stratum with water inside it, both portions positive, and a stratum
\* wholly above the water in the same call, its submerged portion zero.
C21_Witness ==
    /\ OverburdenCall /\ ret.out.status = "ok"
    /\ \E k \in 1..Len(ret.out.portions) :
          /\ ret.out.portions[k].h_moist > 0
          /\ ret.out.portions[k].h_submerged > 0
    /\ \E k \in 1..Len(ret.out.portions) :
          /\ ret.out.portions[k].h_moist > 0
          /\ ret.out.portions[k].h_submerged = 0

\* The sheet holds no negative cohesion or friction angle, and the guard
\* is positive.
NonNegativeInputs ==
    /\ data.epsilon > 0
    /\ \A i \in 1..Len(sheet.strata) :
          sheet.strata[i].c >= 0 /\ sheet.strata[i].fi >= 0

\* C22: in a profile built by process_geotechnical_data from non-negative
\* cohesions and friction angles with epsilon > 0, every stored cohesion and
\* friction angle is the input value plus epsilon and strictly positive, and
\* the parameters a capacity call reads are strictly positive.
C22_StoredParametersPositive ==
    (data # NotLoaded /\ NonNegativeInputs) =>
        /\ Len(data.df) = Len(sheet.strata)
        /\ \A i \in 1..Len(data.df) :
              /\ data.df[i].c = sheet.strata[i].c + data.epsilon
              /\ data.df[i].fi = sheet.strata[i].fi + data.epsilon
              /\ data.df[i].c > 0 /\ data.df[i].fi > 0
        /\ MeyerhofOk =>
              /\ ret.out.c1 > 0 /\ ret.out.fi1 > 0
              /\ ret.out.c2 > 0 /\ ret.out.fi2 > 0

\* A stratum read with cohesion 0 and friction angle 0, stored with both at
\* epsilon and passed so to a capacity call.
C22_Witness ==
    /\ data # NotLoaded
    /\ sheet.strata[1].c = 0 /\ sheet.strata[1].fi = 0
    /\ MeyerhofOk
    /\ ret.out.c1 = data.epsilon /\ ret.out.fi1 = data.epsilon

\* A capacity call on the adjusted profile with a depth inside it, a footing
\* of positive width and length and a positive guard.
ValidCapacityCall ==
    /\ ret.op = "meyerhof_capacity"
    /\ Covered(ret.Df)
    /\ ret.B > 0 /\ ret.L > 0 /\ ret.epsilon > 0

\* N1s + N2s + epsilon of the clay-on-clay branch with CR > 1.
StripAndSquareSum ==
    Milli(4140) + Div(Mul(Milli(500), ret.B), ret.out.d1 + ret.epsilon)
    + Milli(4140) + Div(Mul(Milli(1100), ret.B), ret.out.d1 + ret.epsilon)
    + ret.epsilon

\* C23: for an epsilon-adjusted profile, a depth in range, B > 0, L > 0 and
\* epsilon > 0, meyerhof_capacity divides by zero nowhere, and every divisor
\* of the branch that runs is strictly positive: tan(phi1), tan(phi2), phi1,
\* phi2, c1 + epsilon, d1 + epsilon, N1s + N2s + epsilon, H + epsilon,
\* tan(phi_avg), phi_avg and B * L + epsilon.
C23_DivisorsPositive ==
    ValidCapacityCall =>
        /\ ret.out.status = "ok"
        /\ TanDeg(ret.out.fi1) > 0 /\ TanDeg(ret.out.fi2) > 0
        /\ ret.out.fi1 > 0 /\ ret.out.fi2 > 0
        /\ ret.out.case = "case1" =>
              /\ ret.out.c1 + ret.epsilon > 0
              /\ ret.out.CR > SCALE =>
                    /\ ret.out.d1 + ret.epsilon > 0
                    /\ StripAndSquareSum > 0
        /\ ret.out.case = "case2" =>
              /\ ret.out.H + ret.epsilon > 0
              /\ TanDeg(ret.out.fi_avg) > 0
              /\ ret.out.fi_avg > 0
        /\ ret.out.case \in {"case3_a", "case3_b"} =>
              Mul(ret.B, ret.L) + ret.epsilon > 0

\* The smallest friction angle the profile can hold, averaged with a clay
\* below it, and the capacity returned.
C23_Witness ==
    /\ ValidCapacityCall
    /\ ret.out.status = "ok"
    /\ sheet.strata[1].fi = 0
    /\ ret.out.fi1 = data.epsilon
    /\ ret.out.case = "case2"
    /\ ret.out.fi_avg < data.epsilon
    /\ data.Theta > 0

\* The capacity formula on the embedment layer's parameters alone.
EmbedmentLayerCapacity(F) ==
    QUlt(ret.out.c1, F.Nc, F.Sc, F.dc, F.ic, ret.out.q_bar, F.Nq, F.Sq, F.dq,
         F.iq, ret.out.y_bar, ret.B, F.Ny, F.Sy, F.dy, F.iy)

\* The call repeated on another profile returns the same first component.
SameFirstComponent(alt) ==
    alt.status = "ok" /\ alt.c1 = ret.out.c1 /\ alt.fi1 = ret.out.fi1
    /\ alt.q_ult_1 = ret.out.q_ult_1

\* C24: the first value meyerhof_capacity returns is the single-layer
\* capacity of the embedment layer (c1, phi1), in Case A and in each of the
\* Case B computations alike, and it stays the same when only the cohesion
\* and friction angle of the layer below change.
C24_FirstComponent ==
    MeyerhofOk =>
        /\ ret.out.q_ult_1 =
              EmbedmentLayerCapacity(LayerFactors(ret.out.fi1, ret.Df, ret.B,
                                                  ret.L, data.Theta))
        /\ \A soil \in OtherSoils :
              SameFirstComponent(
                  meyerhof_capacity(WithLayerBelow(soil), ret.Df, ret.B,
                      ret.L, data.GWL, data.Theta, ret.epsilon))

\* A punching-shear call whose controlling capacity is below the first
\* component, over a layer that the other soils differ from.
C24_Witness ==
    /\ MeyerhofOk
    /\ ret.out.case \in {"case3_a", "case3_b"}
    /\ ret.out.q_ult_bilayer < ret.out.q_ult_1
    /\ Located < Len(data.df)
    /\ ret.B > 0 /\ ret.L > 0

\* The capacity formula with the cohesion term's shape and depth factors of
\* the friction angle fiC and every other factor of the averaged angle.
AveragedWith(fiC) ==
    QUlt(ret.out.c_avg, BearingNc(ret.out.fi_avg),
         ShapeC(Kp(fiC), ret.B, ret.L), DepthC(Kp(fiC), ret.Df, ret.B),
         InclinationC(data.Theta),
         ret.out.q_bar, BearingNq(ret.out.fi_avg),
         ShapeQ(ret.out.fi_avg, Kp(ret.out.fi_avg), ret.B, ret.L),
         DepthQ(ret.out.fi_avg, Kp(ret.out.fi_avg), ret.Df, ret.B),
         InclinationC(data.Theta),
         ret.out.y_bar, ret.B, BearingNy(ret.out.fi_avg),
         ShapeQ(ret.out.fi_avg, Kp(ret.out.fi_avg), ret.B, ret.L),
         DepthQ(ret.out.fi_avg, Kp(ret.out.fi_avg), ret.Df, ret.B),
         InclinationY(ret.out.fi_avg, data.Theta))

LoadedTriple == <<"workbook", "geotechnical_input", "footing_configuration">>

\* The input is a workbook with both sheets.
Loadable ==
    /\ input.exists /\ input.workbook
    /\ {"geotechnical_input", "footing_configuration"} \subseteq input.sheetnames

\* C26: load_geotechnical_data returns three values that are not None or
\* (None, None, None), the latter on every failure (missing file, missing
\* first or second sheet, any other exception), and when it returned
\* (None, None, None) run_geotechnical_analysis has processed no data, made
\* no call and exported nothing, then and ever after.
C26_LoadAllOrNothing ==
    run.pc # "start" =>
        /\ run.wb \in {LoadedTriple, NoneTriple}
        /\ run.wb = NoneTriple <=> ~Loadable
        /\ run.wb = NoneTriple =>
              /\ run.pc \in {"loaded", "stopped"}
              /\ data = NotLoaded
              /\ ret = Idle
              /\ run.files = {} /\ run.charts = "none"

\* The run stopped on a workbook that has the first sheet only.
C26_Witness ==
    /\ run.pc = "stopped"
    /\ run.wb = NoneTriple
    /\ input.exists /\ input.workbook
    /\ input.sheetnames = {"geotechnical_input"}
    /\ data = NotLoaded

\* C27: when the chart export has run, the workbook path it opened names a
\* file that the data export step of the same run created, and the charts
\* were added and saved.
C27_ChartsIntoExportedWorkbook ==
    run.pc = "done" =>
        /\ run.path \in run.files
        /\ run.charts = "saved"

\* C28: in every row generate_capacity_table emits, the ultimate capacity is
\* the row's bilayer capacity, the allowable capacity is the ultimate one
\* divided by the safety factor of the code, the stratum id is the one
\* get_stratum_id locates at the row's Df, and the B/L ratio is B / L and
\* lies in (0, 1].
C28_RowColumns ==
    TableOk =>
        \A r \in 1..Len(ret.out.rows) :
            /\ ret.out.rows[r].q_ult_final = ret.out.rows[r].q_ult_bilayer
            /\ ret.out.rows[r].q_adm =
                  Div(ret.out.rows[r].q_ult_final, FactorSafety(data.code))
            /\ ret.out.rows[r].stratum_id =
                  get_stratum_id(data.df, ret.out.rows[r].Df)
            /\ ret.out.rows[r].B_L_Ratio =
                  Div(ret.out.rows[r].B, ret.out.rows[r].L)
            /\ ret.out.rows[r].B_L_Ratio > 0
            /\ ret.out.rows[r].B_L_Ratio <= SCALE

\* C29: the c-phi-on-c-phi branch runs only with 0 < d1 < H; the weights
\* d1 / (H + epsilon) and (H - d1) / (H + epsilon) are not negative and
\* their sum is at most 1; phi_avg is at most max(phi1, phi2), c_avg at most
\* max(c1, c2), and both are strictly positive for positive layer parameters.
C29_AveragesBounded ==
    (Interacting /\ ret.out.case = "case2") =>
        /\ 0 < ret.out.d1 /\ ret.out.d1 < ret.out.H
        /\ Div(ret.out.d1, ret.out.H + ret.epsilon) >= 0
        /\ Div(ret.out.H - ret.out.d1, ret.out.H + ret.epsilon) >= 0
        /\ Div(ret.out.d1, ret.out.H + ret.epsilon)
              + Div(ret.out.H - ret.out.d1, ret.out.H + ret.epsilon) <= SCALE
        /\ ret.out.fi_avg <= Max2(ret.out.fi1, ret.out.fi2)
        /\ ret.out.c_avg <= Max2(ret.out.c1, ret.out.c2)
        /\ (ret.out.fi1 > 0 /\ ret.out.fi2 > 0) => ret.out.fi_avg > 0
        /\ (ret.out.c1 > 0 /\ ret.out.c2 > 0) => ret.out.c_avg > 0

\* Two layers of the same friction angle and cohesion averaged to less than
\* either, both averages positive.
C29_Witness ==
    /\ Interacting /\ ret.out.case = "case2"
    /\ ret.out.fi1 = ret.out.fi2 /\ ret.out.c1 = ret.out.c2
    /\ 0 < ret.out.fi_avg /\ ret.out.fi_avg < ret.out.fi1
    /\ 0 < ret.out.c_avg /\ ret.out.c_avg < ret.out.c1
    /\ ret.out.c1 > 2 * ret.epsilon
=============================================================================
